---- MODULE Spec2Model ----
(***************************************************************************)
(* State-machine model of src/app.py (Yorlect Data Curation Platform).     *)
(*                                                                         *)
(* One Streamlit script run (one execution of main()) is one step of the   *)
(* sequential specification Spec.  Strings are sequences of one-character  *)
(* strings, so that str.strip() and str(int) are computed, not assumed.    *)
(* The progress file is a sequence of <user, details> pairs in the key     *)
(* order json.load / json.dump preserve (dict insertion order).            *)
(***************************************************************************)
EXTENDS Integers, Sequences, FiniteSets, TLC

(***************************************************************************)
(* Program constants                                                       *)
(***************************************************************************)
BlockSize == 100

menu == <<"Login", "Metadata", "Translate", "Admin", "Refresh", "About">>

Pages == {menu[i] : i \in 1..Len(menu)}

ADMIN_PASSWORD == <<"p", "w">>

(***************************************************************************)
(* Bounds of the model                                                     *)
(***************************************************************************)
\* Submit is pressed only while the file holds fewer than MaxSubmitted translations.
MaxSubmitted == 1

\* In the specification of repeated submissions, Submit is pressed only while the file
\* holds fewer than MaxSameSubmitted translations.
MaxSameSubmitted == 3

Sessions == {"s1", "s2"}

\* The session the sequential specification drives.
Foreground == {"s1"}

\* The pages and usernames the interleaved specification drives the sessions through.
StorePages == {"Login", "Metadata", "Translate"}

ConcUsernames == {<<"a">>, <<" ", "b">>}

\* Sentence counts of the remote dataset (fixed during one behaviour).
SentenceCounts == {1, 250}

\* What a user may type into the username box.
RawUsernames == {<<>>, <<" ">>, <<"a">>, <<" ", "b">>, <<"c", " ">>}

\* What a user may type into the translation box.
RawTexts == {<<>>, <<" ">>, <<"x">>, <<" ", "y", " ">>}

\* What may be typed into the admin password box.
RawPasswords == {ADMIN_PASSWORD, <<"p">>}

\* The metadata form as filled in when Save Metadata is pressed.
MetadataForms ==
    { [name |-> <<"n">>, sex |-> "Male", age |-> 18, gmail |-> <<>>, country |-> <<>>] }

\* The pages and the username the specification of stores written by earlier versions
\* drives the session through.
LoadPages == {"Metadata", "Translate", "Admin"}

LoadUsernames == {<<"a">>}

\* The users of such a store, in its key order.
LegacyUsers == << <<"a">>, <<"b">> >>

\* The pages the specification of repeated submissions drives the sessions through.
SamePages == {"Login", "Translate"}

(***************************************************************************)
(* Python values                                                           *)
(***************************************************************************)
None == <<"<None>">>

EmptyDict == <<>>

EmptyList == <<>>

NoButton == "none"

NoNav == "none"

IsSpace(c) == c \in {" ", "\t", "\n"}

RECURSIVE LStrip(_)
LStrip(s) == IF s # <<>> /\ IsSpace(Head(s)) THEN LStrip(Tail(s)) ELSE s

RECURSIVE RStrip(_)
RStrip(s) ==
    IF s # <<>> /\ IsSpace(s[Len(s)]) THEN RStrip(SubSeq(s, 1, Len(s) - 1)) ELSE s

\* Strip that leaves the string as typed
Strip_none(s) == s

\* Strip that removes the leading whitespace only
Strip_left(s) == LStrip(s)

\* str.strip()
Strip(s) == RStrip(LStrip(s))

Digit(d) == CASE d = 0 -> "0" [] d = 1 -> "1" [] d = 2 -> "2" [] d = 3 -> "3"
              [] d = 4 -> "4" [] d = 5 -> "5" [] d = 6 -> "6" [] d = 7 -> "7"
              [] d = 8 -> "8" [] d = 9 -> "9"

\* str(n) for n >= 0: the decimal digits, most significant first
RECURSIVE Str(_)
Str(n) == IF n < 10 THEN <<Digit(n)>> ELSE Append(Str(n \div 10), Digit(n % 10))

Min(a, b) == IF a <= b THEN a ELSE b

\* d[k] = v on a dict d
DictPut(d, k, v) == [x \in DOMAIN d \cup {k} |-> IF x = k THEN v ELSE d[x]]

\* list(range(a, b))
Range(a, b) == IF b <= a THEN EmptyList ELSE [i \in 1..(b - a) |-> a + i - 1]

\* sentences[i]: the i-th row of the "English" column
Sentence(i) == <<"English", i>>

(***************************************************************************)
(* State                                                                   *)
(***************************************************************************)
VARIABLES
    file,            \* contents of user_progress.json (<<>>: no file yet)
    sentence_count,  \* len(load_sentences())
    state,           \* st.session_state of each session
    rerun,           \* a script run of the session is pending (first run, st.rerun())
    view,            \* what the last script run of the session rendered
    pc,              \* where the session's script run stands ("idle": between runs)
    local            \* all_progress and the widget values of the run in progress

vars == <<file, sentence_count, state, rerun, view, pc, local>>

(***************************************************************************)
(* The progress store as an ordered dict                                   *)
(***************************************************************************)
Has(d, u) == \E i \in 1..Len(d) : d[i].user = u

\* list(d.keys()).index(u), zero-based
KeyIndex(d, u) == (CHOOSE i \in 1..Len(d) : d[i].user = u) - 1

Get(d, u) == d[KeyIndex(d, u) + 1].details

\* Put that keeps no other key
Put_alone(d, u, v) == <<[user |-> u, details |-> v]>>

\* d[u] = v: an existing key keeps its place, a new key goes last
Put(d, u, v) ==
    IF Has(d, u)
    THEN [d EXCEPT ![KeyIndex(d, u) + 1].details = v]
    ELSE Append(d, [user |-> u, details |-> v])

\* Field that takes the default whether the key is there or not
Field_overwrites(details, k, default) == default

\* lines 31-38: details[k], set to the default if the key is missing
Field(details, k, default) == IF k \in DOMAIN details THEN details[k] ELSE default

WithDefaults(details) ==
    [ translations |-> Field(details, "translations", EmptyDict),
      metadata     |-> Field(details, "metadata", EmptyDict),
      assigned     |-> Field(details, "assigned", EmptyList),
      index        |-> Field(details, "index", 0) ]

\* lines 24-40: every record of the file, in the file's order, with its missing fields
\* defaulted (a file that does not exist loads as {})
RECURSIVE load_user_progress(_)
load_user_progress(f) ==
    IF f = <<>>
    THEN <<>>
    ELSE <<[user |-> f[1].user, details |-> WithDefaults(f[1].details)]>>
            \o load_user_progress(SubSeq(f, 2, Len(f)))

\* json.dump writes the dict as it is; what is written is what the file holds
save_user_progress(data) == data

(***************************************************************************)
(* translation_page                                                        *)
(***************************************************************************)
NewRecord ==
    [index |-> 0, translations |-> EmptyDict, metadata |-> EmptyDict, assigned |-> EmptyList]

\* lines 90-98: a username the store does not hold gets a fresh record, last in key order
EnsureUser(all_progress, username) ==
    IF ~Has(all_progress, username)
    THEN Put(all_progress, username, NewRecord)
    ELSE all_progress

\* line 101: not user_data.get("assigned")
NeedsAssignment(all_progress, username) ==
    Get(all_progress, username).assigned = EmptyList

\* AssignedRange without the truncation at the end of the dataset
AssignedRange_untruncated(all_progress, username, n) ==
    LET user_index == KeyIndex(all_progress, username)
        start_idx  == user_index * BlockSize
    IN  Range(start_idx, start_idx + BlockSize)

\* AssignedRange with the user's position taken to be the number of users before the
\* last one
AssignedRange_by_count(all_progress, username, n) ==
    LET user_index == Len(all_progress) - 1
        start_idx  == user_index * BlockSize
        end_idx    == Min(start_idx + BlockSize, n)
    IN  Range(start_idx, end_idx)

\* lines 102-106
AssignedRange(all_progress, username, n) ==
    LET user_index == KeyIndex(all_progress, username)
        start_idx  == user_index * BlockSize
        end_idx    == Min(start_idx + BlockSize, n)
    IN  Range(start_idx, end_idx)

\* lines 106-107
Assign(all_progress, username, n) ==
    Put(all_progress, username,
        [Get(all_progress, username) EXCEPT
            !.assigned = AssignedRange(all_progress, username, n)])

\* Submitted without the advance of the cursor
Submitted_no_advance(user_data, sentence_idx, current_idx, translation) ==
    [user_data EXCEPT
        !.translations = DictPut(@, Str(sentence_idx),
                                 [English |-> Sentence(sentence_idx),
                                  Translation |-> Strip(translation)])]

\* Submitted with the cursor advanced by two
Submitted_double_advance(user_data, sentence_idx, current_idx, translation) ==
    [user_data EXCEPT
        !.translations = DictPut(@, Str(sentence_idx),
                                 [English |-> Sentence(sentence_idx),
                                  Translation |-> Strip(translation)]),
        !.index = current_idx + 2]

\* Submitted with the entry keyed by the cursor instead of the sentence index
Submitted_cursor_key(user_data, sentence_idx, current_idx, translation) ==
    [user_data EXCEPT
        !.translations = DictPut(@, Str(current_idx),
                                 [English |-> Sentence(sentence_idx),
                                  Translation |-> Strip(translation)]),
        !.index = current_idx + 1]

\* Submitted with the new entry as the only one of the record
Submitted_only_entry(user_data, sentence_idx, current_idx, translation) ==
    [user_data EXCEPT
        !.translations = DictPut(EmptyDict, Str(sentence_idx),
                                 [English |-> Sentence(sentence_idx),
                                  Translation |-> Strip(translation)]),
        !.index = current_idx + 1]

\* lines 138-144: the entry written for sentence_idx and the cursor after it
\* (the Timestamp of the entry, datetime.now(), is left out: the program only copies it
\* into the admin report)
Submitted(user_data, sentence_idx, current_idx, translation) ==
    [user_data EXCEPT
        !.translations = DictPut(@, Str(sentence_idx),
                                 [English |-> Sentence(sentence_idx),
                                  Translation |-> Strip(translation)]),
        !.index = current_idx + 1]

\* TranslationBody without the completion test: past the end of the block the cursor
\* starts over
TranslationBody_wraps(all_progress, username, n, button, translation) ==
    LET user_data        == Get(all_progress, username)
        assigned_indices == user_data.assigned
        total_assigned   == Len(assigned_indices)
        current_idx      == IF total_assigned = 0 THEN 0
                            ELSE user_data.index % total_assigned
        quiet(v)         == [all |-> all_progress, saved |-> FALSE, view |-> v,
                             rerun |-> FALSE]
    IN  IF total_assigned = 0
        THEN quiet("ZeroDivisionError")
        ELSE IF assigned_indices[current_idx + 1] >= n
        THEN quiet("IndexError")
        ELSE IF button # "Submit Translation"
        THEN quiet("sentence")
        ELSE IF Strip(translation) = <<>>
        THEN quiet("translation_warning")
        ELSE [all   |-> Put(all_progress, username,
                            Submitted(user_data, assigned_indices[current_idx + 1],
                                      current_idx, translation)),
              saved |-> TRUE, view |-> "submitted", rerun |-> TRUE]

\* lines 110-147, on the all_progress that lines 88-108 left
TranslationBody(all_progress, username, n, button, translation) ==
    LET user_data        == Get(all_progress, username)
        assigned_indices == user_data.assigned
        current_idx      == user_data.index
        total_assigned   == Len(assigned_indices)
        quiet(v)         == [all |-> all_progress, saved |-> FALSE, view |-> v,
                             rerun |-> FALSE]
    IN  IF total_assigned = 0
        THEN quiet("ZeroDivisionError")          \* line 117 divides by total_assigned
        ELSE IF current_idx >= total_assigned
        THEN quiet("completed")                  \* lines 119-121
        ELSE IF assigned_indices[current_idx + 1] >= n
        THEN quiet("IndexError")                 \* line 124
        ELSE IF button # "Submit Translation"
        THEN quiet("sentence")
        ELSE IF Strip(translation) = <<>>
        THEN quiet("translation_warning")        \* lines 131-132
        ELSE [all   |-> Put(all_progress, username,
                            Submitted(user_data, assigned_indices[current_idx + 1],
                                      current_idx, translation)),
              saved |-> TRUE, view |-> "submitted", rerun |-> TRUE]

\* translation_page as one piece: what it leaves in the file and on the screen
translation_page(f, username, n, button, translation) ==
    LET loaded   == EnsureUser(load_user_progress(f), username)
        need     == NeedsAssignment(loaded, username)
        assigned == IF need THEN Assign(loaded, username, n) ELSE loaded
        f1       == IF need THEN save_user_progress(assigned) ELSE f
        body     == TranslationBody(assigned, username, n, button, translation)
    IN  [file  |-> IF body.saved THEN save_user_progress(body.all) ELSE f1,
         view  |-> body.view,
         rerun |-> body.rerun]

(***************************************************************************)
(* metadata_page                                                           *)
(***************************************************************************)
\* MetadataBody with the record written afresh instead of updated
MetadataBody_fresh(all_progress, username, button, form) ==
    IF button = "Save Metadata"
    THEN [all   |-> Put(all_progress, username, [metadata |-> form]),
          saved |-> TRUE, view |-> "metadata_saved", rerun |-> TRUE,
          page  |-> "Translate"]
    ELSE [all   |-> all_progress,
          saved |-> FALSE, view |-> "metadata_form", rerun |-> FALSE,
          page  |-> "Metadata"]

\* MetadataBody that also puts the cursor of the record back to 0
MetadataBody_resets_cursor(all_progress, username, button, form) ==
    LET user_data == IF Has(all_progress, username)
                     THEN [Get(all_progress, username) EXCEPT !.metadata = form,
                                                              !.index = 0]
                     ELSE [metadata |-> form]
    IN  IF button = "Save Metadata"
        THEN [all   |-> Put(all_progress, username, user_data),
              saved |-> TRUE, view |-> "metadata_saved", rerun |-> TRUE,
              page  |-> "Translate"]
        ELSE [all   |-> all_progress,
              saved |-> FALSE, view |-> "metadata_form", rerun |-> FALSE,
              page  |-> "Metadata"]

\* lines 53-79, on the all_progress line 52 loaded: user_data is the user's record, or
\* {} for a username the store does not hold, with its "metadata" set to the form
MetadataBody(all_progress, username, button, form) ==
    LET user_data == IF Has(all_progress, username)
                     THEN [Get(all_progress, username) EXCEPT !.metadata = form]
                     ELSE [metadata |-> form]
    IN  IF button = "Save Metadata"
        THEN [all   |-> Put(all_progress, username, user_data),
              saved |-> TRUE, view |-> "metadata_saved", rerun |-> TRUE,
              page  |-> "Translate"]
        ELSE [all   |-> all_progress,
              saved |-> FALSE, view |-> "metadata_form", rerun |-> FALSE,
              page  |-> "Metadata"]

metadata_page(f, username, button, form) ==
    LET body == MetadataBody(load_user_progress(f), username, button, form)
    IN  [file  |-> IF body.saved THEN save_user_progress(body.all) ELSE f,
         view  |-> body.view,
         rerun |-> body.rerun,
         page  |-> body.page]

(***************************************************************************)
(* st.session_state                                                        *)
(***************************************************************************)
\* st.session_state after clear(), and of a session that has not run yet: no key is
\* set ("keys"); a field whose key is not set holds the value main() would default it to
Cleared ==
    [keys |-> {}, username |-> None, logged_in |-> FALSE, page |-> "Login",
     admin_logged_in |-> FALSE]

SetKey(ss, k, v) == [[ss EXCEPT ![k] = v] EXCEPT !.keys = @ \cup {k}]

Default(ss, k, v) == IF k \notin ss.keys THEN SetKey(ss, k, v) ELSE ss

\* lines 240-249: the defaults, then the sidebar choice becomes the page.  The selectbox
\* is rebuilt with index = menu.index(page), so without a pick it returns the page.
Prologue(ss, nav) ==
    LET d == Default(Default(Default(ss, "username", None), "logged_in", FALSE),
                     "page", "Login")
        choice == IF nav = NoNav THEN d.page ELSE nav
    IN  SetKey(d, "page", choice)

(***************************************************************************)
(* admin_page                                                              *)
(***************************************************************************)
\* a/b as a percentage rounded to two decimals (line 187), in hundredths of a percent;
\* raises is the ZeroDivisionError of a division by zero
Percent(a, b) ==
    [raises |-> b = 0,
     value  |-> IF b = 0 THEN 0 ELSE (2 * a * 10000 + b) \div (2 * b)]

\* ProgressPercent without the test of assigned
ProgressPercent_unguarded(details) ==
    Percent(Cardinality(DOMAIN details.translations), Len(details.assigned))

\* line 187: the "Progress (%)" of one user; the division is made only if assigned is
\* not empty
ProgressPercent(details) ==
    IF details.assigned # EmptyList
    THEN Percent(Cardinality(DOMAIN details.translations), Len(details.assigned))
    ELSE [raises |-> FALSE, value |-> 0]

\* lines 178-188: the rows of the progress table, one per user in the order of the store
progress_data(data) ==
    [i \in 1..Len(data) |->
        [User       |-> data[i].user,
         Translated |-> Cardinality(DOMAIN data[i].details.translations),
         Assigned   |-> Len(data[i].details.assigned),
         Progress   |-> ProgressPercent(data[i].details)]]

\* admin_page that takes whatever is typed for the password
admin_page_any_password(ss, f, button, password) ==
    LET s1 == Default(ss, "admin_logged_in", FALSE)
    IN  IF ~s1.admin_logged_in
        THEN IF button = "Login as Admin"
             THEN [state |-> SetKey(s1, "admin_logged_in", TRUE),
                   view |-> "admin_welcome", rerun |-> TRUE]
             ELSE [state |-> s1, view |-> "admin_form", rerun |-> FALSE]
        ELSE IF load_user_progress(f) = <<>>
             THEN [state |-> s1, view |-> "admin_no_data", rerun |-> FALSE]
             ELSE [state |-> s1, view |-> "admin_report", rerun |-> FALSE]

\* lines 152-232: the password form until the session holds the admin login, then the
\* report over the store (an exception raised while the rows are built ends the run)
admin_page(ss, f, button, password) ==
    LET s1 == Default(ss, "admin_logged_in", FALSE)
        data == load_user_progress(f)
    IN  IF ~s1.admin_logged_in
        THEN IF button = "Login as Admin"
             THEN IF password = ADMIN_PASSWORD
                  THEN [state |-> SetKey(s1, "admin_logged_in", TRUE),
                        view |-> "admin_welcome", rerun |-> TRUE]
                  ELSE [state |-> s1, view |-> "admin_error", rerun |-> FALSE]
             ELSE [state |-> s1, view |-> "admin_form", rerun |-> FALSE]
        ELSE IF data = <<>>
             THEN [state |-> s1, view |-> "admin_no_data", rerun |-> FALSE]
             ELSE IF \E i \in 1..Len(data) : progress_data(data)[i].Progress.raises
             THEN [state |-> s1, view |-> "ZeroDivisionError", rerun |-> FALSE]
             ELSE [state |-> s1, view |-> "admin_report", rerun |-> FALSE]

(***************************************************************************)
(* main: one script run                                                    *)
(***************************************************************************)
\* LoggedIn without the check
LoggedIn_always(ss) == TRUE

\* lines 270 and 276: the Metadata and Translate pages are for a logged-in session
LoggedIn(ss) == ss.logged_in

\* clear that resets the login and leaves the admin login in place
clear_user_only(ss) ==
    [ss EXCEPT !.keys = @ \cap {"admin_logged_in"}, !.username = None,
               !.logged_in = FALSE, !.page = "Login"]

\* line 285: st.session_state.clear()
clear(ss) == Cleared

\* What translation_page can leave on the screen.
TranslateViews ==
    {"ZeroDivisionError", "completed", "IndexError", "sentence", "translation_warning",
     "submitted"}

main(ss_in, f, n, nav, button, input) ==
    LET ss      == Prologue(ss_in, nav)
        keep(v) == [state |-> ss, file |-> f, view |-> v, rerun |-> FALSE]
    IN  CASE ss.page = "Login" ->
               IF ~ss.logged_in
               THEN IF button = "Login"
                    THEN IF Strip(input) # <<>>
                         THEN [state |-> SetKey(SetKey(SetKey(ss,
                                            "username", Strip(input)),
                                            "logged_in", TRUE),
                                            "page", "Metadata"),
                               file |-> f, view |-> "welcome", rerun |-> TRUE]
                         ELSE keep("login_error")
                    ELSE keep("login_form")
               ELSE IF button = "Next"
                    THEN [state |-> SetKey(ss, "page", "Metadata"),
                          file |-> f, view |-> "logged_in_info", rerun |-> TRUE]
                    ELSE keep("logged_in_info")
          [] ss.page = "Metadata" ->
               IF LoggedIn(ss)
               THEN LET r == metadata_page(f, ss.username, button, input)
                    IN  [state |-> SetKey(ss, "page", r.page),
                         file |-> r.file, view |-> r.view, rerun |-> r.rerun]
               ELSE keep("login_warning")
          [] ss.page = "Translate" ->
               IF LoggedIn(ss)
               THEN LET r == translation_page(f, ss.username, n, button, input)
                    IN  [state |-> ss, file |-> r.file, view |-> r.view,
                         rerun |-> r.rerun]
               ELSE keep("login_warning")
          [] ss.page = "Admin" ->
               LET r == admin_page(ss, f, button, input)
               IN  [state |-> r.state, file |-> f, view |-> r.view, rerun |-> r.rerun]
          [] ss.page = "Refresh" ->
               [state |-> clear(ss), file |-> f, view |-> "refreshed", rerun |-> TRUE]
          [] ss.page = "About" -> keep("about")

(***************************************************************************)
(* Steps                                                                   *)
(***************************************************************************)
NoLocal == [all_progress |-> <<>>, button |-> NoButton, input |-> <<>>]

Init ==
    /\ file = <<>>
    /\ sentence_count \in SentenceCounts
    /\ state = [s \in Sessions |-> Cleared]
    /\ rerun = [s \in Sessions |-> TRUE]
    /\ view = [s \in Sessions |-> "none"]
    /\ pc = [s \in Sessions |-> "idle"]
    /\ local = [s \in Sessions |-> NoLocal]

\* A whole script run of session s as one step.
Run(s, nav, button, input) ==
    LET r == main(state[s], file, sentence_count, nav, button, input)
    IN  /\ pc[s] = "idle"
        /\ state' = [state EXCEPT ![s] = r.state]
        /\ file' = r.file
        /\ view' = [view EXCEPT ![s] = r.view]
        /\ rerun' = [rerun EXCEPT ![s] = r.rerun]
        /\ UNCHANGED <<sentence_count, pc, local>>

\* The pages whose code reads the file and may write it back.
UsesStore(ss) == LoggedIn(ss) /\ ss.page \in {"Metadata", "Translate"}

\* The end of a script run that is past its last access to the file.
Finish(s, v, again) ==
    /\ view' = [view EXCEPT ![s] = v]
    /\ rerun' = [rerun EXCEPT ![s] = again]
    /\ pc' = [pc EXCEPT ![s] = "idle"]
    /\ local' = [local EXCEPT ![s] = NoLocal]

\* The script goes on from all_progress (lines 110-147) to its end, or up to the
\* write of line 145, which SubmitSave does.
ContinueBody(s, all_progress, username, button, input) ==
    LET body == TranslationBody(all_progress, username, sentence_count, button, input)
    IN  IF body.saved
        THEN /\ pc' = [pc EXCEPT ![s] = "submit_save"]
             /\ local' = [local EXCEPT ![s] =
                    [all_progress |-> all_progress, button |-> button, input |-> input]]
             /\ UNCHANGED <<view, rerun>>
        ELSE Finish(s, body.view, body.rerun)

\* A script run of a page that uses the store, up to its first write of the file:
\* lines 240-249, the load (line 52 or 88) and what follows up to the write.
Begin(s, nav, button, input) ==
    LET ss == Prologue(state[s], nav)
        u  == ss.username
        loaded == load_user_progress(file)
        wait(at) ==
            /\ pc' = [pc EXCEPT ![s] = at]
            /\ local' = [local EXCEPT ![s] =
                    [all_progress |-> loaded, button |-> button, input |-> input]]
            /\ UNCHANGED <<view, rerun>>
    IN  /\ pc[s] = "idle"
        /\ UsesStore(ss)
        /\ UNCHANGED <<file, sentence_count>>
        /\ state' = [state EXCEPT ![s] = ss]
        /\ IF ss.page = "Metadata"
           THEN LET body == MetadataBody(loaded, u, button, input)
                IN  IF body.saved
                    THEN wait("metadata_save")
                    ELSE Finish(s, body.view, body.rerun)
           ELSE IF NeedsAssignment(EnsureUser(loaded, u), u)
                THEN wait("assign_save")
                ELSE ContinueBody(s, EnsureUser(loaded, u), u, button, input)

\* lines 66-79: the record is changed in memory and line 74 writes the file
MetadataSave(s) ==
    LET body == MetadataBody(local[s].all_progress, state[s].username,
                             local[s].button, local[s].input)
    IN  /\ pc[s] = "metadata_save"
        /\ file' = save_user_progress(body.all)
        /\ state' = [state EXCEPT ![s] = SetKey(@, "page", body.page)]
        /\ Finish(s, body.view, body.rerun)
        /\ UNCHANGED sentence_count

\* lines 102-108: the block is computed in memory and line 108 writes the file; the
\* script goes on
AssignSave(s) ==
    LET u == state[s].username
        all_progress == Assign(EnsureUser(local[s].all_progress, u), u, sentence_count)
    IN  /\ pc[s] = "assign_save"
        /\ file' = save_user_progress(all_progress)
        /\ ContinueBody(s, all_progress, u, local[s].button, local[s].input)
        /\ UNCHANGED <<sentence_count, state>>

\* lines 134-147: the entry is added in memory and line 145 writes the file
SubmitSave(s) ==
    LET body == TranslationBody(local[s].all_progress, state[s].username,
                                sentence_count, local[s].button, local[s].input)
    IN  /\ pc[s] = "submit_save"
        /\ file' = save_user_progress(body.all)
        /\ Finish(s, body.view, body.rerun)
        /\ UNCHANGED <<sentence_count, state>>

\* A script run: in one step, or (the pages that use the store, when the runs of the
\* sessions interleave) up to its first write of the file.
Exec(s, nav, button, input, atomic) ==
    IF atomic \/ ~UsesStore(Prologue(state[s], nav))
    THEN Run(s, nav, button, input)
    ELSE Begin(s, nav, button, input)

\* The number of translations the file holds, all users together.
RECURSIVE Submitted_count(_)
Submitted_count(f) ==
    IF f = <<>> THEN 0
    ELSE Cardinality(DOMAIN WithDefaults(f[1].details).translations)
            + Submitted_count(SubSeq(f, 2, Len(f)))

Shows(s, views) == ~rerun[s] /\ pc[s] = "idle" /\ view[s] \in views

\* The first run of a session, and the run st.rerun() asks for.
Rerun(s, atomic) == rerun[s] /\ Exec(s, NoNav, NoButton, <<>>, atomic)

\* The user picks a page in the sidebar.
Select(s, atomic, pages) ==
    /\ ~rerun[s]
    /\ \E c \in pages : Exec(s, c, NoButton, <<>>, atomic)

ClickLogin(s, atomic, usernames) ==
    /\ Shows(s, {"login_form", "login_error"})
    /\ \E username \in usernames : Exec(s, NoNav, "Login", username, atomic)

ClickNext(s, atomic) ==
    /\ Shows(s, {"logged_in_info"})
    /\ Exec(s, NoNav, "Next", <<>>, atomic)

ClickSaveMetadata(s, atomic) ==
    /\ Shows(s, {"metadata_form"})
    /\ \E form \in MetadataForms : Exec(s, NoNav, "Save Metadata", form, atomic)

\* Submit Translation pressed while the file holds fewer than max translations.
ClickSubmitUpTo(s, atomic, max) ==
    /\ Shows(s, {"sentence", "translation_warning"})
    /\ Submitted_count(file) < max
    /\ \E translation \in RawTexts :
            Exec(s, NoNav, "Submit Translation", translation, atomic)

ClickSubmit(s, atomic) == ClickSubmitUpTo(s, atomic, MaxSubmitted)

ClickAdminLogin(s, atomic) ==
    /\ Shows(s, {"admin_form", "admin_error"})
    /\ \E password \in RawPasswords : Exec(s, NoNav, "Login as Admin", password, atomic)

(***************************************************************************)
(* Spec: script runs one at a time, in one browser session whose user may  *)
(* refresh and log in again under another name.                            *)
(***************************************************************************)
Next ==
    \E s \in Foreground :
        \/ Rerun(s, TRUE)
        \/ Select(s, TRUE, Pages)
        \/ ClickLogin(s, TRUE, RawUsernames)
        \/ ClickNext(s, TRUE)
        \/ ClickSaveMetadata(s, TRUE)
        \/ ClickSubmit(s, TRUE)
        \/ ClickAdminLogin(s, TRUE)

Spec == Init /\ [][Next]_vars

(***************************************************************************)
(* SpecConc: the script runs of two browser sessions interleave at every   *)
(* access to the file.  The sessions are driven through the pages that     *)
(* use the store, under two usernames.                                     *)
(***************************************************************************)
NextConc ==
    \E s \in Sessions :
        \/ Rerun(s, FALSE)
        \/ Select(s, FALSE, StorePages)
        \/ ClickLogin(s, FALSE, ConcUsernames)
        \/ ClickNext(s, FALSE)
        \/ ClickSaveMetadata(s, FALSE)
        \/ ClickSubmit(s, FALSE)
        \/ MetadataSave(s)
        \/ AssignSave(s)
        \/ SubmitSave(s)

SpecConc == Init /\ [][NextConc]_vars

(***************************************************************************)
(* SpecSame: the script runs of two browser sessions interleave at every   *)
(* access to the file, and the user goes on submitting along the block.    *)
(***************************************************************************)
NextSame ==
    \E s \in Sessions :
        \/ Rerun(s, FALSE)
        \/ Select(s, FALSE, SamePages)
        \/ ClickLogin(s, FALSE, ConcUsernames)
        \/ ClickSubmitUpTo(s, FALSE, MaxSameSubmitted)
        \/ AssignSave(s)
        \/ SubmitSave(s)

SpecSame == Init /\ [][NextSame]_vars

(***************************************************************************)
(* SpecLoad: script runs one at a time over a store written by an earlier  *)
(* version of the program, whose records hold any subset of the four       *)
(* fields.                                                                 *)
(***************************************************************************)
LegacyFields == {"translations", "metadata", "assigned", "index"}

LegacyValue(k) ==
    CASE k = "translations" ->
            DictPut(EmptyDict, Str(0), [English |-> Sentence(0), Translation |-> <<"x">>])
      [] k = "metadata" ->
            [name |-> <<"n">>, sex |-> "Male", age |-> 18, gmail |-> <<>>, country |-> <<>>]
      [] k = "assigned" -> <<0>>
      [] k = "index" -> 1

LegacyRecords == {[k \in present |-> LegacyValue(k)] : present \in SUBSET LegacyFields}

LegacyStores ==
    UNION {[1..n -> LegacyRecords] : n \in 1..Len(LegacyUsers)}

InitLoad ==
    /\ \E records \in LegacyStores :
            file = [i \in 1..Len(records) |->
                        [user |-> LegacyUsers[i], details |-> records[i]]]
    /\ sentence_count \in SentenceCounts
    /\ state = [s \in Sessions |-> Cleared]
    /\ rerun = [s \in Sessions |-> TRUE]
    /\ view = [s \in Sessions |-> "none"]
    /\ pc = [s \in Sessions |-> "idle"]
    /\ local = [s \in Sessions |-> NoLocal]

NextLoad ==
    \E s \in Foreground :
        \/ Rerun(s, TRUE)
        \/ Select(s, TRUE, LoadPages)
        \/ ClickLogin(s, TRUE, LoadUsernames)
        \/ ClickSaveMetadata(s, TRUE)
        \/ ClickAdminLogin(s, TRUE)

SpecLoad == InitLoad /\ [][NextLoad]_vars

(***************************************************************************)
(* Properties                                                              *)
(***************************************************************************)
\* The record the file holds for u, as load_user_progress returns it.
Stored(f, u) == Get(load_user_progress(f), u)

HasAssigned(f, u) == Has(f, u) /\ Stored(f, u).assigned # <<>>

\* a is the contiguous range [BlockSize*p, min(BlockSize*p + BlockSize, n))
IsBlock(a, p, n) ==
    /\ Len(a) = IF n - BlockSize * p >= BlockSize THEN BlockSize
                ELSE IF n - BlockSize * p > 0 THEN n - BlockSize * p
                ELSE 0
    /\ \A i \in 1..Len(a) : a[i] = BlockSize * p + (i - 1)

\* This step is a script run of session s that rendered the Translate view for its user.
VisitsTranslate(s) ==
    /\ pc[s] = "idle" /\ pc'[s] = "idle"
    /\ state'[s].logged_in /\ state'[s].page = "Translate"
    /\ view'[s] \in TranslateViews

\* C1: the Translate-view visit of a user without an assigned list stores, for that user,
\* the contiguous range [100*p, min(100*p + 100, N)), p being the user's zero-based
\* position in the key order of the store at that visit and N the sentence count; with
\* N = 250 the first registrant gets [0, 100) and the third gets [200, 250).
C1_FirstVisitAssignsBlock ==
    [][\A s \in Foreground :
        LET u == state'[s].username
            p == IF Has(file, u) THEN KeyIndex(file, u) ELSE Len(file)
        IN  (VisitsTranslate(s) /\ ~HasAssigned(file, u))
                => /\ Has(file', u)
                   /\ KeyIndex(file', u) = p
                   /\ IsBlock(Stored(file', u).assigned, p, sentence_count)
                   /\ (sentence_count = 250 /\ p = 0)
                        => Stored(file', u).assigned = [i \in 1..100 |-> i - 1]
                   /\ (sentence_count = 250 /\ p = 2)
                        => Stored(file', u).assigned = [i \in 1..50 |-> 199 + i]
      ]_vars

\* Three users registered with 250 sentences; the third holds the 50 indices from 200.
C1_Witness ==
    /\ sentence_count = 250
    /\ Len(file) = 3
    /\ Len(Stored(file, file[1].user).assigned) = 100
    /\ Len(Stored(file, file[3].user).assigned) = 50
    /\ Stored(file, file[3].user).assigned[1] = 200
    /\ \E s \in Foreground : state[s].username = file[3].user /\ view[s] = "sentence"

\* The positions of s that hold no whitespace.
NonSpace(s) == {i \in 1..Len(s) : s[i] \notin {" ", "\t", "\n"}}

\* s from its first to its last character that is not whitespace.
Trimmed(s) ==
    IF NonSpace(s) = {} THEN <<>>
    ELSE SubSeq(s, CHOOSE i \in NonSpace(s) : \A j \in NonSpace(s) : i <= j,
                   CHOOSE i \in NonSpace(s) : \A j \in NonSpace(s) : j <= i)

\* This step is the write of an accepted submission of session s (line 145).
SubmitStep(s) == pc[s] = "submit_save" /\ pc'[s] = "idle"

\* The submission of session s, made at the cursor i its run loaded, leaves text stored
\* under the key of assigned[i], the cursor at i + 1, and one entry per key.
SubmissionStores(s, text) ==
    LET u      == state[s].username
        before == Get(local[s].all_progress, u)
        i      == before.index
        key    == Str(before.assigned[i + 1])
        after  == Stored(file', u)
    IN  /\ i < Len(before.assigned)
        /\ Has(file', u)
        /\ key \in DOMAIN after.translations
        /\ after.translations[key].Translation = text
        /\ after.index = i + 1
        /\ DOMAIN after.translations = DOMAIN before.translations \cup {key}

\* C2 as stated: after an accepted submission at cursor i, the entry keyed by assigned[i]
\* holds the submitted text and the cursor is i + 1; a key that exists is replaced.
C2_StoresSubmittedText ==
    [][\A s \in Sessions : SubmitStep(s) => SubmissionStores(s, local[s].input)]_vars

\* C2 as amended: after an accepted submission at cursor i, the entry keyed by assigned[i]
\* holds the submitted text with its leading and trailing whitespace removed and the
\* cursor is i + 1; a key that exists is replaced, not added a second time.
C2_StoresStrippedText ==
    [][\A s \in Sessions : SubmitStep(s) => SubmissionStores(s, Trimmed(local[s].input))]_vars

\* Two sessions of one user have both had a submission accepted for the same sentence:
\* the store holds one entry for it and the cursor is 1.
C2_Witness ==
    \E s, t \in Sessions :
        /\ s # t
        /\ state[s].username = state[t].username
        /\ view[s] = "submitted" /\ view[t] = "submitted"
        /\ rerun[s] /\ rerun[t]
        /\ Has(file, state[s].username)
        /\ Stored(file, state[s].username).index = 1
        /\ Cardinality(DOMAIN Stored(file, state[s].username).translations) = 1

\* The Translate view is on the screen of session s, rendered for its user.
OnTranslate(s) ==
    /\ pc[s] = "idle" /\ ~rerun[s]
    /\ state[s].logged_in /\ state[s].page = "Translate"
    /\ view[s] \in TranslateViews

\* C3: a user whose start index 100*p is at or past the sentence count has an empty
\* assigned list after visiting the Translate view, and the visit ends in the completion
\* state, not in an error.
C3_EmptyRangeShowsCompletion ==
    \A s \in Foreground :
        LET u == state[s].username
        IN  (OnTranslate(s) /\ Has(file, u)
                /\ BlockSize * KeyIndex(file, u) >= sentence_count)
                => /\ Stored(file, u).assigned = <<>>
                   /\ view[s] = "completed"

Elems(a) == {a[i] : i \in 1..Len(a)}

\* C4: in every reachable state, also when the runs of the sessions interleave between
\* load and save, the assigned lists of two distinct users of the store share no index.
C4_AssignedDisjoint ==
    \A i, j \in 1..Len(file) :
        i # j => Elems(WithDefaults(file[i].details).assigned)
                    \cap Elems(WithDefaults(file[j].details).assigned) = {}

\* Two users hold blocks while a run is about to write a store it loaded earlier.
C4_Witness ==
    /\ Len(file) = 2
    /\ \A i \in 1..2 : WithDefaults(file[i].details).assigned # <<>>
    /\ \E s \in Sessions :
            /\ pc[s] # "idle"
            /\ local[s].all_progress # load_user_progress(file)

\* The assigned list of u can no longer change: it is set, or its block is empty.
Frozen(f, u) ==
    /\ Has(f, u)
    /\ \/ Stored(f, u).assigned # <<>>
       \/ BlockSize * KeyIndex(f, u) >= sentence_count

\* C5: with a fixed sentence count and script runs one at a time, a Translate-view visit
\* leaves the user's assigned list fixed, and no later run of that user or of another
\* (login, registration, metadata save, Translate visit, submission, Refresh) changes it.
C5_AssignedImmutable ==
    [][/\ \A s \in Foreground :
            VisitsTranslate(s) => Frozen(file', state'[s].username)
       /\ \A i \in 1..Len(file) :
            LET u == file[i].user
            IN  Frozen(file, u)
                    => /\ Frozen(file', u)
                       /\ KeyIndex(file', u) = KeyIndex(file, u)
                       /\ Stored(file', u).assigned = Stored(file, u).assigned
      ]_vars

\* The first user holds a block, has submitted and saved metadata, and two more users
\* have registered since; the third is on the Translate view.
C5_Witness ==
    /\ Len(file) = 3
    /\ WithDefaults(file[1].details).assigned # <<>>
    /\ WithDefaults(file[1].details).index = 1
    /\ WithDefaults(file[1].details).metadata # EmptyDict
    /\ \E s \in Foreground : OnTranslate(s) /\ state[s].username = file[3].user

\* C6: in every reachable state of the store, also under interleaved sessions and two
\* sessions of one username, every record has index <= len(assigned).
C6_CursorWithinAssigned ==
    \A i \in 1..Len(file) :
        WithDefaults(file[i].details).index <= Len(WithDefaults(file[i].details).assigned)

\* Two sessions of one user have both had a submission accepted for the only sentence
\* of the user's block: the cursor stands at the end of the block.
C6_Witness ==
    \E i \in 1..Len(file) :
        /\ WithDefaults(file[i].details).index = 1
        /\ Len(WithDefaults(file[i].details).assigned) = 1
        /\ \A s \in Sessions :
                /\ state[s].username = file[i].user
                /\ view[s] = "submitted"

\* C7: in every reachable state of the store, also under interleaved sessions, the keys
\* of a user's translations are keys of that user's assigned indices.
C7_TranslationKeysAssigned ==
    \A i \in 1..Len(file) :
        LET r == WithDefaults(file[i].details)
        IN  DOMAIN r.translations \subseteq {Str(r.assigned[k]) : k \in 1..Len(r.assigned)}

\* The second user of the store holds a translation, keyed "100", while the other
\* session is about to write.
C7_Witness ==
    /\ Len(file) = 2
    /\ DOMAIN WithDefaults(file[2].details).translations = {<<"1", "0", "0">>}
    /\ \E s \in Sessions : pc[s] # "idle" /\ state[s].username # file[2].user

\* C8: selecting the Metadata or Translate view in a session that is not logged in
\* changes nothing: the file is not written, no record is created or assigned, and the
\* session stays not logged in, without a username.
C8_GuardedPagesNoOp ==
    [][\A s \in Foreground :
        (~state[s].logged_in /\ Select(s, TRUE, {"Metadata", "Translate"}))
            => /\ file' = file
               /\ ~state'[s].logged_in
               /\ state'[s].username = None
               /\ view'[s] = "login_warning"
               /\ ~rerun'[s]
      ]_vars

\* The warning is on the Translate page of a logged-out session while the store holds
\* records.
C8_Witness ==
    \E s \in Foreground :
        /\ view[s] = "login_warning"
        /\ state[s].page = "Translate"
        /\ ~state[s].logged_in
        /\ file # <<>>

\* C9: a validation failure blocks the transition.  Login pressed with a username that
\* is empty after trimming leaves the session not logged in and on the Login page;
\* Submit pressed with a translation that is empty after trimming leaves the file, hence
\* the user's translations and index, unchanged.
C9_ValidationBlocks ==
    [][\A s \in Foreground :
        /\ \A username \in RawUsernames :
                (/\ Trimmed(username) = <<>>
                 /\ Shows(s, {"login_form", "login_error"})
                 /\ Run(s, NoNav, "Login", username))
                    => /\ ~state'[s].logged_in
                       /\ state'[s].username = None
                       /\ state'[s].page = "Login"
                       /\ view'[s] = "login_error"
                       /\ ~rerun'[s]
                       /\ file' = file
        /\ \A translation \in RawTexts :
                (/\ Trimmed(translation) = <<>>
                 /\ Shows(s, {"sentence", "translation_warning"})
                 /\ Run(s, NoNav, "Submit Translation", translation))
                    => /\ file' = file
                       /\ view'[s] = "translation_warning"
                       /\ state'[s].page = "Translate"
                       /\ ~rerun'[s]
      ]_vars

\* The warning for an empty translation is on the screen of a user whose record holds
\* a block, no translation and the cursor 0.
C9_Witness ==
    \E s \in Foreground :
        /\ view[s] = "translation_warning"
        /\ Has(file, state[s].username)
        /\ Stored(file, state[s].username).index = 0
        /\ Stored(file, state[s].username).translations = EmptyDict
        /\ Stored(file, state[s].username).assigned # <<>>

\* C10: selecting Refresh clears the session state (login flag, username, admin login
\* flag), the next script run renders the Login page logged out, and the file is left
\* as it was.
C10_RefreshClears ==
    [][\A s \in Foreground :
        /\ Select(s, TRUE, {"Refresh"})
                => /\ state'[s].keys = {}
                   /\ rerun'[s]
                   /\ view'[s] = "refreshed"
                   /\ file' = file
        /\ (view[s] = "refreshed" /\ Rerun(s, TRUE))
                => /\ state'[s].keys = {"username", "logged_in", "page"}
                   /\ state'[s].page = "Login"
                   /\ state'[s].logged_in = FALSE
                   /\ state'[s].username = None
                   /\ state'[s].admin_logged_in = FALSE
                   /\ view'[s] = "login_form"
                   /\ ~rerun'[s]
                   /\ file' = file
      ]_vars

\* After a Refresh the Login form is on the screen, the session holds no login and no
\* admin login, and the store still holds a submitted translation.
C10_Witness ==
    \E s \in Foreground :
        /\ view[s] = "login_form"
        /\ state[s].keys = {"username", "logged_in", "page"}
        /\ Submitted_count(file) = 1

\* This step is a script run of session s that rendered the Admin page.
VisitsAdmin(s) == pc[s] = "idle" /\ pc'[s] = "idle" /\ state'[s].page = "Admin"

\* C11: the admin login of a session becomes set only by Login as Admin pressed with the
\* configured password on the password form; a wrong password shows the error and leaves
\* the session logged out; and the report over the store (or the note that the store is
\* empty) is rendered only by a run that found the admin login set.
C11_AdminLoginOnlyByPassword ==
    [][\A s \in Foreground :
        /\ (~state[s].admin_logged_in /\ state'[s].admin_logged_in)
                => /\ Shows(s, {"admin_form", "admin_error"})
                   /\ Run(s, NoNav, "Login as Admin", ADMIN_PASSWORD)
        /\ \A password \in RawPasswords :
                (/\ password # ADMIN_PASSWORD
                 /\ Shows(s, {"admin_form", "admin_error"})
                 /\ Run(s, NoNav, "Login as Admin", password))
                    => /\ ~state'[s].admin_logged_in
                       /\ view'[s] = "admin_error"
                       /\ ~rerun'[s]
        /\ (VisitsAdmin(s) /\ view'[s] \in {"admin_report", "admin_no_data"})
                => state[s].admin_logged_in
        /\ (Shows(s, {"admin_report", "admin_no_data"}) /\ state[s].page = "Admin")
                => state[s].admin_logged_in
      ]_vars

\* The report over a store that holds records is on the screen of a session that holds
\* the admin login.
C11_Witness ==
    \E s \in Foreground :
        /\ Shows(s, {"admin_report"})
        /\ state[s].page = "Admin"
        /\ state[s].admin_logged_in
        /\ file # <<>>

\* The store holds u with a block whose every sentence is done.
Complete(f, u) ==
    /\ Has(f, u)
    /\ Stored(f, u).assigned # <<>>
    /\ Stored(f, u).index = Len(Stored(f, u).assigned)

\* This step is a step of session s.
Acts(s) ==
    \/ state'[s] # state[s] \/ rerun'[s] # rerun[s] \/ view'[s] # view[s]
    \/ pc'[s] # pc[s] \/ local'[s] # local[s]

\* This step belongs to a script run of translation_page in session s.
TranslateStep(s) ==
    /\ Acts(s)
    /\ state'[s].logged_in /\ state'[s].page = "Translate"
    /\ pc[s] # "metadata_save"

\* C12 as stated: once the store holds a user with index = len(assigned) on a block
\* that is not empty, no step of a Translate-view visit or of a submission by that user
\* changes the user's index or translations.
C12_CompletionTerminal ==
    [][\A s \in Sessions :
        LET u == state'[s].username
        IN  (TranslateStep(s) /\ Complete(file, u))
                => /\ Has(file', u)
                   /\ Stored(file', u).index = Stored(file, u).index
                   /\ Stored(file', u).translations = Stored(file, u).translations
      ]_vars

\* C12 as amended: a Translate-view visit or submission whose script run starts while
\* the store holds the user with index = len(assigned) on a block that is not empty
\* ends in that step with the completion message and without a write; and a script run
\* that is waiting to write did not load the user complete.
C12_CompletedRunWritesNothing ==
    [][\A s \in Sessions :
        LET u == state'[s].username
        IN  /\ (pc[s] = "idle" /\ TranslateStep(s) /\ Complete(file, u))
                    => /\ pc'[s] = "idle"
                       /\ view'[s] = "completed"
                       /\ ~rerun'[s]
                       /\ file' = file
            /\ pc[s] \in {"assign_save", "submit_save"}
                    => ~Complete(local[s].all_progress, state[s].username)
      ]_vars

\* The completion message is on the screen of a user whose only assigned sentence is
\* translated.
C12_Witness ==
    \E s \in Sessions :
        /\ OnTranslate(s)
        /\ view[s] = "completed"
        /\ Complete(file, state[s].username)
        /\ Cardinality(DOMAIN Stored(file, state[s].username).translations) = 1

\* C13: with script runs one at a time, Save Metadata pressed by a logged-in user leaves
\* in the store that user's record with the metadata of the form and with its assigned,
\* translations and index as they were (a user the store did not hold is added last,
\* with nothing assigned or translated and index 0), leaves every other record and the
\* key order as they were, and makes Translate the page of the session.
C13_MetadataSaveFrame ==
    [][\A s \in Foreground : \A form \in MetadataForms :
        LET u == state[s].username
        IN  (Shows(s, {"metadata_form"}) /\ Run(s, NoNav, "Save Metadata", form))
                => /\ Has(file', u)
                   /\ Stored(file', u).metadata = form
                   /\ IF Has(file, u)
                      THEN /\ Len(file') = Len(file)
                           /\ KeyIndex(file', u) = KeyIndex(file, u)
                           /\ Stored(file', u).assigned = Stored(file, u).assigned
                           /\ Stored(file', u).translations = Stored(file, u).translations
                           /\ Stored(file', u).index = Stored(file, u).index
                      ELSE /\ Len(file') = Len(file) + 1
                           /\ KeyIndex(file', u) = Len(file)
                           /\ Stored(file', u).assigned = <<>>
                           /\ Stored(file', u).translations = <<>>
                           /\ Stored(file', u).index = 0
                   /\ \A i \in 1..Len(file) : file[i].user # u => file'[i] = file[i]
                   /\ state'[s].page = "Translate"
                   /\ state'[s].logged_in /\ state'[s].username = u
                   /\ view'[s] = "metadata_saved"
                   /\ rerun'[s]
      ]_vars

\* The first of two users of the store, who holds a block and a translation, has just
\* saved metadata.
C13_Witness ==
    \E s \in Foreground :
        /\ view[s] = "metadata_saved" /\ rerun[s]
        /\ state[s].page = "Translate"
        /\ Len(file) = 2
        /\ state[s].username = file[1].user
        /\ Stored(file, file[1].user).index = 1
        /\ Stored(file, file[1].user).assigned # <<>>
        /\ Stored(file, file[1].user).metadata # EmptyDict
        /\ Stored(file, file[2].user).assigned # <<>>

\* C14: loading a store whose records lack any of metadata, translations, assigned and
\* index gives, record by record and in the order of the store, the same users with each
\* missing field at its default ({}, {}, [] and 0) and each field that was there as it
\* was.
C14_LoadDefaults ==
    LET data == load_user_progress(file)
    IN  /\ Len(data) = Len(file)
        /\ \A i \in 1..Len(file) :
                LET before == file[i].details
                    after  == data[i].details
                IN  /\ data[i].user = file[i].user
                    /\ DOMAIN after = {"translations", "metadata", "assigned", "index"}
                    /\ after.metadata =
                            IF "metadata" \in DOMAIN before THEN before.metadata ELSE <<>>
                    /\ after.translations =
                            IF "translations" \in DOMAIN before THEN before.translations
                            ELSE <<>>
                    /\ after.assigned =
                            IF "assigned" \in DOMAIN before THEN before.assigned ELSE <<>>
                    /\ after.index =
                            IF "index" \in DOMAIN before THEN before.index ELSE 0

\* The admin report has been built from a store whose first record holds none of the
\* four fields and whose second record holds all of them.
C14_Witness ==
    /\ Len(file) = 2
    /\ DOMAIN file[1].details = {}
    /\ DOMAIN file[2].details = {"translations", "metadata", "assigned", "index"}
    /\ file[2].details.index = 1
    /\ \E s \in Foreground : Shows(s, {"admin_report"}) /\ state[s].page = "Admin"

\* C15: the admin report reports 0 percent for every user whose assigned list is empty,
\* with or without translations, and building the report never ends in a division error.
C15_EmptyAssignedZeroPercent ==
    \A s \in Foreground :
        (/\ Shows(s, {"admin_report", "ZeroDivisionError"})
         /\ state[s].page = "Admin")
            => /\ view[s] = "admin_report"
               /\ LET data == load_user_progress(file)
                  IN  \A i \in 1..Len(data) :
                        data[i].details.assigned = <<>>
                            => /\ ~progress_data(data)[i].Progress.raises
                               /\ progress_data(data)[i].Progress.value = 0

\* The admin report is on the screen for a store whose first user has a translation and
\* nothing assigned and whose second user has its only assigned sentence translated.
C15_Witness ==
    /\ Len(file) = 2
    /\ WithDefaults(file[1].details).assigned = <<>>
    /\ WithDefaults(file[1].details).translations # <<>>
    /\ WithDefaults(file[2].details).assigned # <<>>
    /\ progress_data(load_user_progress(file))[2].Progress.value = 10000
    /\ \E s \in Foreground :
            /\ Shows(s, {"admin_report"})
            /\ state[s].page = "Admin"
            /\ state[s].admin_logged_in

UsersOf(d) == {d[i].user : i \in 1..Len(d)}

\* This step is a write of the file by the script run of session s.
WriteStep(s) == pc[s] \in {"metadata_save", "assign_save", "submit_save"} /\ pc'[s] # pc[s]

\* C16: a script run writes the whole store from the copy it loaded, with no lock and no
\* version check: after its write the store holds every other user exactly as that copy
\* did, whatever the store held just before, so that what another session saved in
\* between (a translation, a metadata, a new record) is gone.
C16_WriteReplacesStore ==
    [][\A s \in Sessions :
        WriteStep(s)
            => \A v \in (UsersOf(file) \cup UsersOf(file') \cup UsersOf(local[s].all_progress))
                        \ {state[s].username} :
                    /\ Has(file', v) <=> Has(local[s].all_progress, v)
                    /\ Has(file', v) => Stored(file', v) = Get(local[s].all_progress, v)
      ]_vars

\* The last run of one session saved a translation of its user, and a write by the
\* session of another user has since left the store without that user's record.
C16_Witness ==
    \E s, t \in Sessions :
        /\ state[s].logged_in /\ state[t].logged_in
        /\ state[s].username # state[t].username
        /\ pc[s] = "idle" /\ pc[t] = "idle"
        /\ view[t] = "submitted" /\ rerun[t]
        /\ ~Has(file, state[t].username)
        /\ Has(file, state[s].username)

\* C17: in every reachable state of the store, every record has as many translations as
\* its cursor says, keyed by exactly the first index elements of its assigned list.
C17_CursorCountsTranslations ==
    \A i \in 1..Len(file) :
        LET r == WithDefaults(file[i].details)
        IN  /\ r.index <= Len(r.assigned)
            /\ r.index = Cardinality(DOMAIN r.translations)
            /\ DOMAIN r.translations = {Str(r.assigned[k]) : k \in 1..r.index}

\* A user holds two translations and the cursor 2 while another session of that user is
\* about to write a submission it made at the cursor 0.
C17_Witness ==
    \E i \in 1..Len(file) : \E s \in Sessions :
        /\ WithDefaults(file[i].details).index = 2
        /\ Cardinality(DOMAIN WithDefaults(file[i].details).translations) = 2
        /\ pc[s] = "submit_save"
        /\ state[s].username = file[i].user
        /\ Get(local[s].all_progress, file[i].user).index = 0

\* C18: a logged-in session holds a username that is a string, not empty and without
\* leading or trailing whitespace; the username does not change while the session stays
\* logged in; only Refresh ends the login and only Login pressed on the Login form, with
\* a username that is not empty after trimming, starts one.
C18_LoginBindsUsername ==
    [][\A s \in Foreground :
        /\ state[s].logged_in
                => /\ state[s].username # None
                   /\ state[s].username # <<>>
                   /\ Trimmed(state[s].username) = state[s].username
        /\ state'[s].logged_in
                => /\ state'[s].username # None
                   /\ state'[s].username # <<>>
                   /\ Trimmed(state'[s].username) = state'[s].username
        /\ (state[s].logged_in /\ state'[s].logged_in)
                => state'[s].username = state[s].username
        /\ (state[s].logged_in /\ ~state'[s].logged_in)
                => Select(s, TRUE, {"Refresh"})
        /\ (~state[s].logged_in /\ state'[s].logged_in)
                => /\ Shows(s, {"login_form", "login_error"})
                   /\ \E username \in RawUsernames :
                        /\ Run(s, NoNav, "Login", username)
                        /\ state'[s].username = Trimmed(username)
        /\ state'[s].username # state[s].username
                => \/ ~state[s].logged_in /\ state'[s].logged_in
                   \/ state[s].logged_in /\ ~state'[s].logged_in
      ]_vars

\* The session is logged in as c, typed with a trailing blank, after it was logged in
\* as a, whose record the store holds.
C18_Witness ==
    \E s \in Foreground :
        /\ state[s].logged_in
        /\ state[s].username = <<"c">>
        /\ view[s] = "welcome"
        /\ Has(file, <<"a">>)

====
